---- MODULE Spec2Model ----
(***************************************************************************)
(* Model of the CI helper scripts of ai-cicd-github:                       *)
(*   scripts/ai_review.py       review_code, parse_severity, __main__      *)
(*   scripts/generate_tests.py  generate_tests_for_function, main          *)
(*   scripts/find_stale.py      analyze_code_with_gemini, main, __main__   *)
(* One run of the model is one run of one of the three scripts.  Texts are *)
(* sequences of tokens (words, blanks, newlines, fences) so that strip,    *)
(* split, startswith and the JSON parse are computed as the code does.     *)
(***************************************************************************)
EXTENDS Integers, Sequences, FiniteSets, TLC

\* ------------------------------------------------------------- bounds
MaxTextLen == 5     \* tokens in a review text returned by the API
MaxRespLen == 4     \* tokens in a response text of the stale-code scan
MaxFiles   == 2     \* files found by get_python_files
MaxArgs    == 2     \* command-line file arguments of generate_tests
MaxFuncs   == 2     \* function definitions extract_functions finds in a file

\* ---------------------------------------------------- program constants
REVIEW_MAX_RETRIES == 4    \* MAX_RETRIES of ai_review.py
GEN_MAX_RETRIES == 6       \* MAX_RETRIES of generate_tests.py
RETRY_SLEEP_SECONDS == 25
REQUEST_SLEEP_SECONDS == 15

\* ------------------------------------------------------ generic helpers
SeqsUpTo(S, n) == UNION {[1..k -> S] : k \in 0..n}

Last(s) == s[Len(s)]

\* Python whitespace: blanks and newlines
IsSpace(tok) == tok \in {" ", "\n"}

RECURSIVE LStrip(_)
LStrip(s) == IF s /= <<>> /\ IsSpace(Head(s)) THEN LStrip(Tail(s)) ELSE s

RECURSIVE RStrip(_)
RStrip(s) ==
    IF s /= <<>> /\ IsSpace(Last(s)) THEN RStrip(SubSeq(s, 1, Len(s) - 1)) ELSE s

\* str.strip()
Strip(s) == RStrip(LStrip(s))

\* index of the first element of s satisfying membership in T, 0 if none
RECURSIVE FirstIn(_, _, _)
FirstIn(s, T, i) ==
    IF i > Len(s) THEN 0
    ELSE IF s[i] \in T THEN i
    ELSE FirstIn(s, T, i + 1)

RECURSIVE LastIn(_, _, _)
LastIn(s, T, i) ==
    IF i < 1 THEN 0
    ELSE IF s[i] \in T THEN i
    ELSE LastIn(s, T, i - 1)

\* str.split("\n"): the lines of a text, at least one
RECURSIVE SplitLines(_)
SplitLines(s) ==
    LET i == FirstIn(s, {"\n"}, 1)
    IN  IF i = 0 THEN <<s>>
        ELSE <<SubSeq(s, 1, i - 1)>> \o SplitLines(SubSeq(s, i + 1, Len(s)))

\* ------------------------------------------------ rate-limit classifier
\* str.lower() on the words an error message is made of
Lower(tok) ==
    CASE tok = "Rate Limit" -> "rate limit"
      [] tok = "RESOURCE_EXHAUSTED" -> "resource_exhausted"
      [] OTHER -> tok

ErrMsgs ==
    { <<"429", " ", "Too Many Requests">>,
      <<"RESOURCE_EXHAUSTED">>,
      <<"Rate Limit", " ", "exceeded">>,
      <<"resource_exhausted">>,
      <<"connection refused">> }

_is_rate_limit_error(msg) ==
    \/ \E i \in 1..Len(msg) : msg[i] = "429"
    \/ \E i \in 1..Len(msg) : msg[i] = "RESOURCE_EXHAUSTED"
    \/ \E i \in 1..Len(msg) : Lower(msg[i]) = "rate limit"

\* the except handler: sleep and continue on a rate limit, else re-raise
RetryOn_AnyError(msg) == TRUE
RetryOn(msg) == _is_rate_limit_error(msg)

\* for attempt in range(1, MAX_RETRIES + 1): is there an iteration after this one
HasNextAttempt_OffByOne(a, max) == a <= max
HasNextAttempt(a, max) == a < max

\* how an attempt that failed with this message is logged
Failure(msg) == IF _is_rate_limit_error(msg) THEN "rl" ELSE "err"

\* ------------------------------------------------------- parse_severity
PFX == "SEVERITY_SUMMARY:"

ReviewTokens == {" ", "\n", PFX, "GOOD", "critical"}
ReviewTexts == SeqsUpTo(ReviewTokens, MaxTextLen)

Levels == {"CRITICAL", "WARNING", "GOOD"}

\* str.upper() on a word
Upper(tok) ==
    CASE tok = "critical" -> "CRITICAL"
      [] tok = "warning" -> "WARNING"
      [] tok = "good" -> "GOOD"
      [] OTHER -> tok

\* line.strip().startswith("SEVERITY_SUMMARY:")
HasPrefix(line) == Strip(line) /= <<>> /\ Head(Strip(line)) = PFX

\* line.split(":", 1)[1].strip().upper(): the words after the first colon,
\* which ends the first prefix token of a prefixed line
LevelOf(line) ==
    LET i == FirstIn(line, {PFX}, 1)
        rest == Strip(SubSeq(line, i + 1, Len(line)))
    IN  [k \in 1..Len(rest) |-> Upper(rest[k])]

\* level in ("CRITICAL", "WARNING", "GOOD"): a level is one word
IsLevel(level) == Len(level) = 1 /\ level[1] \in Levels

\* a first prefixed line that carries no level ends the scan
RECURSIVE ScanLines_StopAtFirstPrefixed(_)
ScanLines_StopAtFirstPrefixed(lines) ==
    IF lines = <<>> THEN "WARNING"
    ELSE IF HasPrefix(Head(lines))
         THEN (IF IsLevel(LevelOf(Head(lines))) THEN LevelOf(Head(lines))[1]
               ELSE "WARNING")
         ELSE ScanLines_StopAtFirstPrefixed(Tail(lines))

RECURSIVE ScanLines(_)
ScanLines(lines) ==
    IF lines = <<>> THEN "WARNING"
    ELSE IF HasPrefix(Head(lines)) /\ IsLevel(LevelOf(Head(lines)))
         THEN LevelOf(Head(lines))[1]
         ELSE ScanLines(Tail(lines))

parse_severity(review_text) == ScanLines(SplitLines(Strip(review_text)))

\* the canned text review_code returns when retries are exhausted
FallbackReview ==
    <<"AI review skipped due to Gemini quota/rate limit.", "\n", "\n",
      PFX, " ", "WARNING">>

\* ------------------------------------------------ generate_tests inputs
DirTokens == {"src/", "tests/"}

ArgPaths ==
    { <<"src/", "app", ".py">>,
      <<"tests/", "test_app", ".py">>,
      <<"src/", "dangerous", ".py">>,
      <<"README", ".md">> }

SKIP_FILES == { <<"dangerous", ".py">> }
SKIP_FUNCTION_NAMES == { <<"run_command">> }

FuncNames == { <<"add">>, <<"_", "private">>, <<"run_command">> }
FuncLists == SeqsUpTo(FuncNames, MaxFuncs)

GenTexts == { <<>>, <<" ", "def test_x", "\n">> }

\* Path(p).name: what follows the last directory part
PathName(p) == SubSeq(p, LastIn(p, DirTokens, Len(p)) + 1, Len(p))

EndsWithPy(p) == p /= <<>> /\ Last(p) = ".py"
StartsWithTests(p) == p /= <<>> /\ Head(p) = "tests/"

\* [f for f in functions if not f["name"].startswith("_")
\*                       and f["name"] not in SKIP_FUNCTION_NAMES]
RECURSIVE FilterFunctions(_)
FilterFunctions(fs) ==
    IF fs = <<>> THEN <<>>
    ELSE IF Head(Head(fs)) /= "_" /\ Head(fs) \notin SKIP_FUNCTION_NAMES
         THEN <<Head(fs)>> \o FilterFunctions(Tail(fs))
         ELSE FilterFunctions(Tail(fs))

\* base = Path(src_path).name.replace(".py", ""); non-alphanumerics to "_"
RECURSIVE DropPy(_)
DropPy(s) ==
    IF s = <<>> THEN <<>>
    ELSE IF Head(s) = ".py" THEN DropPy(Tail(s))
    ELSE <<Head(s)>> \o DropPy(Tail(s))

_safe_test_filename(src_path) ==
    <<"tests/test_">> \o DropPy(PathName(src_path)) \o <<"_generated.py">>

\* ------------------------------------------- find_stale: response parsing
\* A response text is made of fences, newlines, text that is not JSON ("x")
\* and "J", one complete JSON document, whose value is drawn apart.
FENCE == "~~~"     \* stands for the triple backtick
RespTokens == {FENCE, "\n", "J", "x"}
RespTexts == SeqsUpTo(RespTokens, MaxRespLen)

\* findings as the model may return them
ItemA == [rec |-> TRUE, name |-> "a", mkind |-> "num", mins |-> 5]
ItemB == [rec |-> TRUE, name |-> "b", mkind |-> "absent", mins |-> 0]
ItemNullMins == [rec |-> TRUE, name |-> "n", mkind |-> "null", mins |-> 0]
ItemBadMins == [rec |-> TRUE, name |-> "c", mkind |-> "str", mins |-> 0]
ItemNotRec == [rec |-> FALSE, name |-> "", mkind |-> "absent", mins |-> 0]

Doc(obj, err, fkind, items) ==
    [obj |-> obj, err |-> err, fkind |-> fkind, items |-> items]

\* the JSON documents a "J" can be
Docs ==
    { Doc(TRUE, FALSE, "list", <<>>),                  \* {"findings": []}
      Doc(TRUE, FALSE, "list", <<ItemA>>),
      Doc(TRUE, FALSE, "list", <<ItemA, ItemB>>),
      Doc(TRUE, FALSE, "list", <<ItemB, ItemNullMins>>),
      Doc(TRUE, FALSE, "missing", <<>>),               \* {}
      Doc(TRUE, TRUE, "list", <<ItemA>>),              \* {"error": .., "findings": [..]}
      Doc(TRUE, FALSE, "null", <<>>),                  \* {"findings": null}
      Doc(TRUE, FALSE, "str", <<ItemNotRec>>),         \* {"findings": "a"}
      Doc(TRUE, FALSE, "list", <<ItemA, ItemNotRec>>), \* {"findings": [{..}, 5]}
      Doc(TRUE, FALSE, "list", <<ItemBadMins>>),       \* estimated_minutes: "five"
      Doc(FALSE, FALSE, "list", <<>>) }                \* [] : not an object

\* {"error": str(e), "findings": []}
ErrorRecord == Doc(TRUE, TRUE, "list", <<>>)

\* what client.models.generate_content gives: an exception, a response whose
\* text is None, or a response text (with the value of its JSON document)
Api(raised, none, text, doc) ==
    [raised |-> raised, none |-> none, text |-> text, doc |-> doc]

\* an exception carries no value
NoValue == Doc(FALSE, FALSE, "none", <<>>)
Raised == [raises |-> TRUE, value |-> NoValue]
Returned(v) == [raises |-> FALSE, value |-> v]

\* lines 79-81: drop the first line and what follows the last fence
FenceStrip(response_text) ==
    IF response_text /= <<>> /\ Head(response_text) = FENCE
    THEN LET i == FirstIn(response_text, {"\n"}, 1) IN
         IF i = 0 THEN [raises |-> TRUE, value |-> <<>>]      \* IndexError
         ELSE LET rest == SubSeq(response_text, i + 1, Len(response_text))
                  j == LastIn(rest, {FENCE}, Len(rest))
              IN  Returned(Strip(IF j = 0 THEN rest ELSE SubSeq(rest, 1, j - 1)))
    ELSE Returned(response_text)

\* json.loads: one document, surrounding whitespace allowed
json_loads(text, doc) ==
    IF Strip(text) = <<"J">> THEN Returned(doc) ELSE Raised

\* lines 71-83: the body of the try block
AnalyzeBody(api) ==
    IF api.raised \/ api.none THEN Raised   \* the call raises; None has no strip()
    ELSE LET stripped == FenceStrip(Strip(api.text)) IN
         IF stripped.raises THEN Raised
         ELSE json_loads(stripped.value, api.doc)

\* The outcomes of one call.  The value of the document is drawn only for a
\* text from which one is parsed: the code reads it in no other case.
DocsFor(text) ==
    IF AnalyzeBody(Api(FALSE, FALSE, text, NoValue)).raises THEN {NoValue} ELSE Docs

ApiOutcomes ==
    { Api(TRUE, FALSE, <<>>, NoValue), Api(FALSE, TRUE, <<>>, NoValue) }
    \cup UNION { {Api(FALSE, FALSE, text, doc) : doc \in DocsFor(text)} :
                 text \in RespTexts }

\* the try block without its except clause
analyze_code_with_gemini_NoExcept(api) == AnalyzeBody(api)

\* lines 70-85: any exception becomes an error record
analyze_code_with_gemini(api) ==
    IF AnalyzeBody(api).raises THEN Returned(ErrorRecord) ELSE AnalyzeBody(api)

\* read_file_content: the text of the file, or the error text
FileBodies == { <<"import os">>, <<"Error reading file:", " ", "notes">> }
read_file_content(io_ok, body) ==
    IF io_ok THEN body ELSE <<"Error reading file:", " ", "[Errno 13]">>

ReadIsError(content) == content /= <<>> /\ Head(content) = "Error reading file:"

\* main lines 139-141 on one result: the findings appended, and whether the
\* loop raised (findings not iterable, or an element that takes no item)
Tagged(item, file) ==
    [file |-> file, name |-> item.name, mkind |-> item.mkind, mins |-> item.mins]

RECURSIVE AppendFindings(_, _, _)
AppendFindings(acc, items, file) ==
    IF items = <<>> THEN Returned(acc)
    ELSE IF ~Head(items).rec THEN [raises |-> TRUE, value |-> acc]
    ELSE AppendFindings(Append(acc, Tagged(Head(items), file)), Tail(items), file)

CollectFindings(acc, result, file) ==
    IF result.fkind \in {"null", "num"} THEN [raises |-> TRUE, value |-> acc]
    ELSE AppendFindings(acc, result.items, file)

\* format_findings_as_markdown
RECURSIVE TotalMinutes(_)
TotalMinutes(fs) ==
    IF fs = <<>> THEN 0
    ELSE (IF Head(fs).mkind = "num" THEN Head(fs).mins ELSE 0) + TotalMinutes(Tail(fs))

NoReport == [written |-> FALSE, title |-> "", issues |-> 0, total |-> 0, entries |-> <<>>]

format_findings_as_markdown(fs) ==
    IF fs = <<>>
    THEN Returned([written |-> TRUE, title |-> "No dead code detected in this scan.",
                   issues |-> 0, total |-> 0, entries |-> <<>>])
    ELSE IF \E i \in 1..Len(fs) : fs[i].mkind = "str"
    THEN [raises |-> TRUE, value |-> NoReport]          \* int("five"): ValueError
    ELSE Returned([written |-> TRUE, title |-> "## Stale Code Report",
                   issues |-> Len(fs), total |-> TotalMinutes(fs), entries |-> fs])

\* ----------------------------------------------------------------- state
VARIABLES
    script,         \* which script this run executes
    pc,             \* position in the script
    exit_status,    \* process exit status, -1 while running
    api_key,        \* GEMINI_API_KEY: "None" (unset), "" or a key
    attempt,        \* loop variable of the retry loop
    last_err,       \* last_err of the retry loop
    trace,          \* API calls and sleeps of the current invocation
    diff_content,   \* ai_review: the diff once read, "<unread>" before
    response,       \* ai_review: raw text of the last API response
    review,         \* ai_review: review text
    severity_txt,   \* ai_review: content of severity.txt, "<none>" if absent
    changed_files,  \* generate_tests: sys.argv[1:]
    file_idx,       \* generate_tests: index of the file being processed
    functions,      \* generate_tests: eligible functions of that file
    func_idx,       \* generate_tests: index of the function being processed
    all_tests,      \* generate_tests: tests collected for that file
    tests,          \* generate_tests: value returned by the last invocation
    test_files,     \* generate_tests: generated test files on disk
    writes,         \* generate_tests: indexes of the source files written
    python_files,   \* find_stale: number of files get_python_files found
    scan_idx,       \* find_stale: index of the file being analysed
    all_findings,   \* find_stale: findings collected so far
    report,         \* find_stale: stale_code_report.md
    scan_log        \* find_stale: what happened to each file so far

vars == <<script, pc, exit_status, api_key, attempt, last_err, trace,
          diff_content, response, review, severity_txt,
          changed_files, file_idx, functions, func_idx, all_tests, tests,
          test_files, writes,
          python_files, scan_idx, all_findings, report, scan_log>>

retryVars == <<attempt, last_err, trace>>
reviewVars == <<diff_content, response, review, severity_txt>>
genVars == <<changed_files, file_idx, functions, func_idx, all_tests, tests,
             test_files, writes>>
scanVars == <<python_files, scan_idx, all_findings, report, scan_log>>

Scripts == {"review", "gen", "scan"}

\* events of an invocation
CallEv(res) == [op |-> "call", res |-> res, secs |-> 0]
SleepEv(why, secs) == [op |-> "sleep", res |-> why, secs |-> secs]

NoKey_OnlyNone(k) == k = "None"
NoKey(k) == k \in {"None", ""}        \* "if not api_key"

Init ==
    /\ script \in Scripts
    /\ pc = IF script = "scan" THEN "s_loop" ELSE "start"
    /\ exit_status = -1
    /\ api_key \in {"None", "", "key"}
    /\ attempt = 0
    /\ last_err = <<>>
    /\ trace = <<>>
    /\ diff_content = "<unread>"
    /\ response = <<>>
    /\ review = <<>>
    /\ severity_txt = "<none>"
    /\ changed_files \in IF script = "gen" THEN SeqsUpTo(ArgPaths, MaxArgs)
                         ELSE {<<>>}
    /\ file_idx = 0
    /\ functions = <<>>
    /\ func_idx = 0
    /\ all_tests = <<>>
    /\ tests = <<>>
    /\ test_files = {}
    /\ writes = <<>>
    /\ python_files \in IF script = "scan" THEN 0..MaxFiles ELSE {0}
    /\ scan_idx = 1
    /\ all_findings = <<>>
    /\ report = NoReport
    /\ scan_log = <<>>

\* an uncaught exception ends the process with status 1
Crash == pc' = "crashed" /\ exit_status' = 1

\* ------------------------------------------------- ai_review.py __main__
\* lines 79-84: read the diff from the file argument or from stdin
RvReadDiff ==
    /\ script = "review" /\ pc = "start"
    /\ \E src \in {"stdin", "file", "unreadable file"} :
          IF src = "unreadable file"
          THEN Crash /\ diff_content' = diff_content        \* open() raises
          ELSE /\ diff_content' = "diff"
               /\ pc' = "rv_key" /\ exit_status' = exit_status
    /\ UNCHANGED <<script, api_key, retryVars, response, review, severity_txt,
                   genVars, scanVars>>

\* lines 86-95: soft skip without a credential, else enter review_code
RvCheckKey ==
    /\ script = "review" /\ pc = "rv_key"
    /\ IF NoKey(api_key)
       THEN /\ review' = <<"AI review skipped (missing GEMINI_API_KEY).", "\n", "\n",
                           PFX, " ", "WARNING">>
            /\ severity_txt' = "WARNING"
            /\ pc' = "done" /\ exit_status' = 0
            /\ UNCHANGED <<attempt, trace>>
       ELSE /\ pc' = IF REVIEW_MAX_RETRIES >= 1 THEN "rv_call" ELSE "rv_fallback"
            /\ attempt' = 1 /\ trace' = <<>>
            /\ UNCHANGED <<review, severity_txt, exit_status>>
    /\ UNCHANGED <<script, api_key, last_err, diff_content, response, genVars, scanVars>>

\* review_code lines 49-60: one attempt
RvCall ==
    /\ script = "review" /\ pc = "rv_call"
    /\ \/ \E text \in ReviewTexts :
            /\ response' = text
            /\ review' = Strip(text)
            /\ trace' = Append(trace, CallEv("ok"))
            /\ pc' = "rv_parse"
            /\ attempt' = 0 /\ last_err' = <<>>     \* the locals end with the return
            /\ exit_status' = exit_status
       \/ \E msg \in ErrMsgs :
            /\ last_err' = msg
            /\ trace' = Append(trace, CallEv(Failure(msg)))
            /\ IF RetryOn(msg)
               THEN pc' = "rv_sleep" /\ exit_status' = exit_status
               ELSE Crash
            /\ UNCHANGED <<attempt, response, review>>
    /\ UNCHANGED <<script, api_key, diff_content, severity_txt, genVars, scanVars>>

\* review_code lines 58-59: sleep, then the next iteration or the end of the loop
RvSleep ==
    /\ script = "review" /\ pc = "rv_sleep"
    /\ trace' = Append(trace, SleepEv("retry", RETRY_SLEEP_SECONDS))
    /\ IF HasNextAttempt(attempt, REVIEW_MAX_RETRIES)
       THEN attempt' = attempt + 1 /\ pc' = "rv_call"
       ELSE attempt' = attempt /\ pc' = "rv_fallback"
    /\ UNCHANGED <<script, api_key, exit_status, last_err, reviewVars, genVars, scanVars>>

\* exhaustion raising, as in generate_tests_for_function
RvFallback_Raises ==
    /\ script = "review" /\ pc = "rv_fallback"
    /\ Crash
    /\ UNCHANGED <<script, api_key, retryVars, reviewVars, genVars, scanVars>>

\* review_code lines 62-66: the graceful fallback
RvFallback ==
    /\ script = "review" /\ pc = "rv_fallback"
    /\ review' = FallbackReview
    /\ pc' = "rv_parse"
    /\ attempt' = 0 /\ last_err' = <<>>             \* the locals end with the return
    /\ UNCHANGED <<script, api_key, exit_status, trace, diff_content, response,
                   severity_txt, genVars, scanVars>>

\* lines 98-103: parse the severity and write severity.txt
RvWrite ==
    /\ script = "review" /\ pc = "rv_parse"
    /\ severity_txt' = parse_severity(review)
    /\ pc' = "done" /\ exit_status' = 0
    /\ UNCHANGED <<script, api_key, retryVars, diff_content, response, review, genVars, scanVars>>

\* --------------------------------------------------- generate_tests.main
\* lines 121-131
GenStart ==
    /\ script = "gen" /\ pc = "start"
    /\ IF changed_files = <<>>
       THEN pc' = "done" /\ exit_status' = 0 /\ file_idx' = file_idx
       ELSE IF NoKey(api_key)
       THEN Crash /\ file_idx' = file_idx
       ELSE pc' = "g_file" /\ file_idx' = 1 /\ exit_status' = exit_status
    /\ UNCHANGED <<script, api_key, retryVars, reviewVars, changed_files,
                   functions, func_idx, all_tests, tests, test_files, writes,
                   scanVars>>

\* lines 133-157: the head of one iteration of the file loop
GenFile ==
    /\ script = "gen" /\ pc = "g_file"
    /\ IF file_idx > Len(changed_files)
       THEN /\ pc' = "done" /\ exit_status' = 0
            /\ UNCHANGED <<file_idx, functions, func_idx, all_tests, retryVars>>
       ELSE LET file_path == changed_files[file_idx] IN
            IF \/ ~EndsWithPy(file_path)
               \/ StartsWithTests(file_path)
               \/ PathName(file_path) \in SKIP_FILES
            THEN /\ file_idx' = file_idx + 1
                 /\ UNCHANGED <<pc, exit_status, functions, func_idx, all_tests,
                                retryVars>>
            ELSE \/ /\ Crash        \* extract_functions raises (open, ast.parse)
                    /\ UNCHANGED <<file_idx, functions, func_idx, all_tests,
                                   retryVars>>
                 \/ \E found \in FuncLists :
                       LET eligible == FilterFunctions(found) IN
                       IF eligible = <<>>
                       THEN /\ file_idx' = file_idx + 1
                            /\ UNCHANGED <<pc, exit_status, functions, func_idx,
                                           all_tests, retryVars>>
                       ELSE /\ functions' = eligible
                            /\ func_idx' = 1
                            /\ all_tests' = <<>>
                            /\ attempt' = 1 /\ last_err' = <<>> /\ trace' = <<>>
                            /\ pc' = IF GEN_MAX_RETRIES >= 1 THEN "g_call"
                                     ELSE "g_exhausted"
                            /\ UNCHANGED <<file_idx, exit_status>>
    /\ UNCHANGED <<script, api_key, reviewVars, changed_files, tests,
                   test_files, writes, scanVars>>

\* generate_tests_for_function lines 81-104: one attempt
GenCall ==
    /\ script = "gen" /\ pc = "g_call"
    /\ \/ \E text \in GenTexts :
            /\ tests' = Strip(text)
            /\ trace' = trace \o <<CallEv("ok"),
                                   SleepEv("pace", REQUEST_SLEEP_SECONDS)>>
            /\ pc' = "g_ret"
            /\ UNCHANGED <<last_err, exit_status>>
       \/ \E msg \in ErrMsgs :
            /\ last_err' = msg
            /\ trace' = Append(trace, CallEv(Failure(msg)))
            /\ IF RetryOn(msg)
               THEN pc' = "g_sleep" /\ exit_status' = exit_status
               ELSE Crash
            /\ tests' = tests
    /\ UNCHANGED <<script, api_key, attempt, reviewVars, changed_files, file_idx,
                   functions, func_idx, all_tests, test_files, writes, scanVars>>

\* generate_tests_for_function lines 100-101
GenSleep ==
    /\ script = "gen" /\ pc = "g_sleep"
    /\ trace' = Append(trace, SleepEv("retry", RETRY_SLEEP_SECONDS))
    /\ IF HasNextAttempt(attempt, GEN_MAX_RETRIES)
       THEN attempt' = attempt + 1 /\ pc' = "g_call"
       ELSE attempt' = attempt /\ pc' = "g_exhausted"
    /\ UNCHANGED <<script, api_key, exit_status, last_err, reviewVars, genVars, scanVars>>

\* generate_tests_for_function line 106: retries exhausted
GenExhausted ==
    /\ script = "gen" /\ pc = "g_exhausted"
    /\ Crash
    /\ UNCHANGED <<script, api_key, retryVars, reviewVars, genVars, scanVars>>

\* leaving the function loop after the first function
GenCollect_WriteEarly ==
    /\ script = "gen" /\ pc = "g_ret"
    /\ all_tests' = Append(all_tests,
            [func |-> functions[func_idx], file |-> changed_files[file_idx],
             tests |-> tests])
    /\ last_err' = <<>> /\ trace' = <<>> /\ attempt' = 0
    /\ pc' = "g_write"
    /\ UNCHANGED <<script, api_key, exit_status, reviewVars,
                   changed_files, file_idx, functions, func_idx, tests,
                   test_files, writes, scanVars>>

\* main lines 158-161: collect the tests, go on to the next function; the
\* locals of the invocation that returned are gone (last_err = None anew)
GenCollect ==
    /\ script = "gen" /\ pc = "g_ret"
    /\ all_tests' = Append(all_tests,
            [func |-> functions[func_idx], file |-> changed_files[file_idx],
             tests |-> tests])
    /\ last_err' = <<>> /\ trace' = <<>>
    /\ IF func_idx < Len(functions)
       THEN /\ func_idx' = func_idx + 1
            /\ attempt' = 1
            /\ pc' = IF GEN_MAX_RETRIES >= 1 THEN "g_call" ELSE "g_exhausted"
       ELSE /\ pc' = "g_write"
            /\ attempt' = 0
            /\ func_idx' = func_idx
    /\ UNCHANGED <<script, api_key, exit_status, reviewVars,
                   changed_files, file_idx, functions, tests, test_files, writes,
                   scanVars>>

\* open(test_file, "w"): the file is created or replaced
WriteFile(files, name, body) ==
    {f \in files : f.name /= name} \cup {[name |-> name, body |-> body]}

\* main lines 163-172: write the test file of this source file
GenWrite ==
    /\ script = "gen" /\ pc = "g_write"
    /\ IF all_tests /= <<>>
       THEN /\ test_files' = WriteFile(test_files,
                                _safe_test_filename(changed_files[file_idx]),
                                <<"import pytest">> \o all_tests)
            /\ writes' = Append(writes, file_idx)
       ELSE UNCHANGED <<test_files, writes>>
    /\ file_idx' = file_idx + 1
    /\ pc' = "g_file"
    /\ UNCHANGED <<script, api_key, exit_status, retryVars, reviewVars,
                   changed_files, functions, func_idx, all_tests, tests, scanVars>>

\* ------------------------------------------------------- find_stale.main
LogEntry(kind, failed, value) == [kind |-> kind, failed |-> failed, value |-> value]

\* lines 125-144: one iteration of the file loop
ScanFile ==
    /\ script = "scan" /\ pc = "s_loop"
    /\ scan_idx <= python_files
    /\ \E io_ok \in BOOLEAN, body \in FileBodies :
         LET content == read_file_content(io_ok, body) IN
         IF ReadIsError(content)
         THEN /\ scan_idx' = scan_idx + 1
              /\ scan_log' = Append(scan_log, LogEntry("readerr", FALSE, ErrorRecord))
              /\ UNCHANGED <<pc, exit_status, all_findings>>
         ELSE \E api \in ApiOutcomes :
              LET r == analyze_code_with_gemini(api)
                  result == r.value
                  got == CollectFindings(all_findings, result, scan_idx)
              IN  /\ scan_log' = Append(scan_log,
                          LogEntry("analysed", AnalyzeBody(api).raises, result))
                  /\ IF r.raises \/ ~result.obj
                     THEN Crash /\ UNCHANGED <<scan_idx, all_findings>>
                     ELSE IF result.err
                     THEN /\ scan_idx' = scan_idx + 1
                          /\ UNCHANGED <<pc, exit_status, all_findings>>
                     ELSE /\ all_findings' = got.value
                          /\ IF got.raises
                             THEN Crash /\ scan_idx' = scan_idx
                             ELSE /\ scan_idx' = scan_idx + 1
                                  /\ UNCHANGED <<pc, exit_status>>
    /\ UNCHANGED <<script, api_key, retryVars, reviewVars, genVars,
                   python_files, report>>

\* lines 146-155: render and write the report
ScanReport ==
    /\ script = "scan" /\ pc = "s_loop"
    /\ scan_idx > python_files
    /\ LET md == format_findings_as_markdown(all_findings) IN
       IF md.raises THEN Crash /\ report' = report
       ELSE report' = md.value /\ pc' = "s_exit" /\ exit_status' = exit_status
    /\ UNCHANGED <<script, api_key, retryVars, reviewVars, genVars,
                   python_files, scan_idx, all_findings, scan_log>>

\* the exit status taken from the files scanned instead of the findings
ScanExit_FromFiles ==
    /\ script = "scan" /\ pc = "s_exit"
    /\ exit_status' = IF python_files > 0 THEN 1 ELSE 0
    /\ pc' = "done"
    /\ UNCHANGED <<script, api_key, retryVars, reviewVars, genVars, scanVars>>

\* lines 159-160: raise SystemExit(1 if findings else 0)
ScanExit ==
    /\ script = "scan" /\ pc = "s_exit"
    /\ exit_status' = IF all_findings /= <<>> THEN 1 ELSE 0
    /\ pc' = "done"
    /\ UNCHANGED <<script, api_key, retryVars, reviewVars, genVars, scanVars>>

\* ------------------------------------------------------------------ spec
Next ==
    \/ RvReadDiff \/ RvCheckKey \/ RvCall \/ RvSleep \/ RvFallback \/ RvWrite
    \/ GenStart \/ GenFile \/ GenCall \/ GenSleep \/ GenExhausted
    \/ GenCollect \/ GenWrite
    \/ ScanFile \/ ScanReport \/ ScanExit

Spec == Init /\ [][Next]_vars

\* --------------------------------------------------------------- claims
CallIdx(tr) == {i \in 1..Len(tr) : tr[i].op = "call"}
NumCalls(tr) == Cardinality(CallIdx(tr))
RetrySleepIdx(tr) == {i \in 1..Len(tr) : tr[i].op = "sleep" /\ tr[i].res = "retry"}
Max(S) == CHOOSE m \in S : \A x \in S : x <= m
Min(S) == CHOOSE m \in S : \A x \in S : m <= x

Retrying == script \in {"review", "gen"}
MaxRetries == IF script = "review" THEN REVIEW_MAX_RETRIES ELSE GEN_MAX_RETRIES
Terminated == pc \in {"done", "crashed"}

\* C1: an invocation of review_code or generate_tests_for_function calls the
\* API at most MAX_RETRIES times; every call after the first directly follows
\* a call that failed with an error classified as a rate limit; no call is
\* pending once MAX_RETRIES calls were made, and the invocation is over after
\* at most MAX_RETRIES calls and as many sleeps.
C1_BoundedRetries ==
    Retrying =>
        /\ NumCalls(trace) <= MaxRetries
        /\ \A i \in CallIdx(trace) :
              LET before == {j \in CallIdx(trace) : j < i} IN
              before /= {} => trace[Max(before)].res = "rl"
        /\ pc \in {"rv_call", "g_call"} => NumCalls(trace) < MaxRetries
        /\ Len(trace) <= 2 * MaxRetries

C1_Witness ==
    /\ script = "gen" /\ pc = "g_ret"
    /\ NumCalls(trace) = GEN_MAX_RETRIES

\* C2: a failure not classified as a rate limit is the last event of its
\* invocation (no call, no sleep after it) and the error reaches the top.
C2_NonRateLimitPropagates ==
    Retrying =>
        \A i \in 1..Len(trace) :
            trace[i] = CallEv("err") =>
                i = Len(trace) /\ pc = "crashed" /\ exit_status = 1

C2_Witness ==
    /\ script = "review" /\ pc = "crashed"
    /\ Len(trace) = 5 /\ trace[5] = CallEv("err")

\* every attempt failed with a rate limit and the loop is over
Exhausted ==
    /\ NumCalls(trace) = MaxRetries
    /\ \A i \in CallIdx(trace) : trace[i].res = "rl"
    /\ pc \notin {"rv_sleep", "rv_fallback", "g_sleep", "g_exhausted"}

\* C3: on exhaustion review_code returns the canned text, whose severity is
\* WARNING, and the review script writes it and exits 0; on exhaustion
\* generate_tests_for_function raises and the run ends as failed.
C3_ExhaustionPolicies ==
    Retrying /\ Exhausted =>
        IF script = "review"
        THEN /\ pc \in {"rv_parse", "done"}
             /\ review = FallbackReview
             /\ parse_severity(review) = "WARNING"
             /\ pc = "done" => severity_txt = "WARNING" /\ exit_status = 0
        ELSE pc = "crashed" /\ exit_status = 1

C3_Witness ==
    /\ script = "review" /\ Exhausted /\ pc = "done"
    /\ severity_txt = "WARNING"

\* C4: analyze_code_with_gemini never raises: when the call or the parse
\* fails the result is the error record (an "error" key, no findings); and a
\* result with an "error" key leaves no finding for its file and the loop
\* moves on to the next file; a scan that ends has visited every file.
C4_ErrorRecordSkips ==
    script = "scan" =>
        /\ \A i \in 1..Len(scan_log) :
              /\ scan_log[i].failed =>
                    scan_log[i].value = ErrorRecord /\ scan_idx > i
              /\ (scan_log[i].kind = "analysed" /\ scan_log[i].value.obj
                     /\ scan_log[i].value.err) =>
                    /\ scan_idx > i
                    /\ \A k \in 1..Len(all_findings) : all_findings[k].file /= i
        /\ pc = "done" => Len(scan_log) = python_files

C4_Witness ==
    /\ script = "scan" /\ pc = "done"
    /\ Len(scan_log) = 2
    /\ scan_log[1].failed
    /\ scan_log[2].kind = "analysed" /\ ~scan_log[2].value.err
    /\ Len(all_findings) = 1

\* the per-file outcomes C5 speaks of: read error, error, findings or none
WellFormed(e) ==
    \/ e.kind = "readerr"
    \/ /\ e.value.obj
       /\ \/ e.value.err
          \/ /\ e.value.fkind \in {"list", "missing"}
             /\ \A k \in 1..Len(e.value.items) :
                   e.value.items[k].rec /\ e.value.items[k].mkind /= "str"

RECURSIVE ExpectedFindings(_, _)
ExpectedFindings(log, i) ==
    IF i > Len(log) THEN <<>>
    ELSE (IF log[i].kind = "analysed" /\ ~log[i].value.err
          THEN [k \in 1..Len(log[i].value.items) |->
                   Tagged(log[i].value.items[k], i)]
          ELSE <<>>) \o ExpectedFindings(log, i + 1)

\* C5: with well-formed outcomes the scan does not fail, the report lists
\* exactly the findings of the successfully analysed files, in file order and
\* in the order returned, and the exit status is 1 exactly when there is one.
C5_ExitStatusAndReport ==
    (script = "scan" /\ \A i \in 1..Len(scan_log) : WellFormed(scan_log[i])) =>
        LET expected == ExpectedFindings(scan_log, 1) IN
        /\ pc /= "crashed"
        /\ all_findings = expected
        /\ pc \in {"s_exit", "done"} =>
              /\ report.written
              /\ report.entries = expected
              /\ report.issues = Len(expected)
        /\ pc = "done" => exit_status = (IF expected /= <<>> THEN 1 ELSE 0)

C5_Witness ==
    /\ script = "scan" /\ pc = "done" /\ exit_status = 1
    /\ Len(scan_log) = 2
    /\ scan_log[1].value = Doc(TRUE, FALSE, "list", <<ItemA>>)
    /\ scan_log[2].value = Doc(TRUE, FALSE, "list", <<>>)
    /\ report.issues = 1

\* lines of a text that carry the prefix, and those whose remainder is a level
PrefixedLines(text) ==
    {i \in 1..Len(SplitLines(text)) : HasPrefix(SplitLines(text)[i])}
ValidLines(text) ==
    {i \in PrefixedLines(text) : IsLevel(LevelOf(SplitLines(text)[i]))}

FirstPrefixedSeverity(text) ==
    IF PrefixedLines(text) = {} THEN "WARNING"
    ELSE LET l == SplitLines(text)[Min(PrefixedLines(text))] IN
         IF IsLevel(LevelOf(l)) THEN LevelOf(l)[1] ELSE "WARNING"

FirstValidSeverity(text) ==
    IF ValidLines(text) = {} THEN "WARNING"
    ELSE LevelOf(SplitLines(text)[Min(ValidLines(text))])[1]

FromApi == trace /= <<>> /\ Last(trace) = CallEv("ok")

\* C6 as stated: the first prefixed line alone decides the severity.
C6_FirstPrefixedLineDecides ==
    (script = "review" /\ pc = "done" /\ FromApi) =>
        severity_txt = FirstPrefixedSeverity(response)

\* C6 amended: the severity is the level of the first prefixed line whose
\* trimmed, uppercased remainder is CRITICAL, WARNING or GOOD, and WARNING
\* when no line is such; prefixed lines with another remainder are passed over.
C6_FirstValidLineDecides ==
    (script = "review" /\ pc = "done") =>
        /\ severity_txt = FirstValidSeverity(review)
        /\ FromApi => severity_txt = FirstValidSeverity(response)

C6_Witness ==
    /\ script = "review" /\ pc = "done" /\ FromApi
    /\ severity_txt = "CRITICAL"
    /\ FirstPrefixedSeverity(response) = "WARNING"
    /\ Cardinality(PrefixedLines(response)) = 2

\* C7 as stated: without a credential the review script always writes
\* WARNING and exits 0, the test-generation script always fails.
C7_MissingCredential ==
    (NoKey(api_key) /\ Terminated /\ Retrying) =>
        /\ trace = <<>>
        /\ IF script = "review"
           THEN severity_txt = "WARNING" /\ exit_status = 0
           ELSE pc = "crashed" /\ exit_status = 1 /\ test_files = {}

\* C7 amended: without a credential no script calls the API; the review
\* script, once it has read the diff, writes WARNING and exits 0; the
\* test-generation script given at least one file argument fails before
\* writing any test file, and given none returns normally, writing nothing.
C7_MissingCredentialAmended ==
    (api_key \in {"None", ""} /\ Retrying) =>
        /\ trace = <<>>
        /\ pc \notin {"rv_call", "rv_sleep", "rv_fallback", "rv_parse",
                      "g_file", "g_call", "g_sleep", "g_exhausted", "g_ret",
                      "g_write"}
        /\ test_files = {}
        /\ Terminated =>
              IF script = "review"
              THEN IF diff_content = "<unread>"
                   THEN pc = "crashed" /\ severity_txt = "<none>"
                   ELSE pc = "done" /\ severity_txt = "WARNING" /\ exit_status = 0
              ELSE IF changed_files = <<>>
                   THEN pc = "done" /\ exit_status = 0
                   ELSE pc = "crashed" /\ exit_status = 1

C7_Witness ==
    /\ script = "gen" /\ api_key = "" /\ pc = "crashed"
    /\ Len(changed_files) = 2

\* C8 as stated: every retry sleep directly follows a rate-limit failure and
\* is followed by another attempt, so k attempts that end by exhaustion come
\* with k-1 retry sleeps.
C8_SleepOnlyBetweenAttempts ==
    Retrying =>
        /\ \A i \in RetrySleepIdx(trace) :
              /\ i > 1 /\ trace[i - 1] = CallEv("rl")
              /\ i < Len(trace) => trace[i + 1].op = "call"
              /\ i = Len(trace) => pc \in {"rv_call", "g_call"}
        /\ Exhausted => Cardinality(RetrySleepIdx(trace)) = NumCalls(trace) - 1

\* C9 as stated: whatever the model returns, find_stale.main does not crash
\* and the report is written.
C9_MalformedOutputNeverCrashes ==
    script = "scan" =>
        /\ pc /= "crashed"
        /\ pc = "done" => report.written

Increasing(s) == \A i, j \in 1..Len(s) : i < j => s[i] < s[j]

C10_Inv ==
    script = "gen" =>
        /\ Increasing(writes)
        /\ \A i \in 1..Len(writes) : writes[i] < file_idx
        /\ \A f \in test_files :
              \E i \in 1..Len(writes) :
                 f.name = _safe_test_filename(changed_files[writes[i]])
        /\ (writes = <<>>) = (test_files = {})

C10_Step ==
    /\ pc /= "crashed"
    /\ pc' = "crashed" => test_files' = test_files /\ writes' = writes
    /\ (test_files' /= test_files \/ writes' /= writes) =>
          /\ pc = "g_write"
          /\ Len(all_tests) = Len(functions)
          /\ \A k \in 1..Len(functions) :
                /\ all_tests[k].func = functions[k]
                /\ all_tests[k].file = changed_files[file_idx]
          /\ writes' = Append(writes, file_idx)
          /\ [name |-> _safe_test_filename(changed_files[file_idx]),
              body |-> <<"import pytest">> \o all_tests] \in test_files'
          /\ \A f \in test_files :
                f.name /= _safe_test_filename(changed_files[file_idx])
                   => f \in test_files'

\* C10: a test file is written only once every eligible function of its
\* source file has its tests, source files are written in input order, and
\* when main raises nothing more is written: not for the file at hand, not
\* for a later one, and what was written before stays.
C10_AllOrNothingWrites == [](C10_Inv) /\ [][C10_Step]_vars

C10_Witness ==
    /\ script = "gen" /\ pc = "crashed"
    /\ writes = <<1>> /\ file_idx = 2
    /\ Len(functions) = 2 /\ Len(all_tests) = 1
    /\ trace /= <<>>

====
